---- MODULE Spec2Model ----
(***************************************************************************)
(* wcursorgen: the cursor build pipeline of src/src/main.rs.               *)
(*                                                                         *)
(* Text (config lines, paths) is a sequence of one-character strings, so   *)
(* that splitting, integer parsing and path handling are computed as the   *)
(* code computes them.  The file system and the codec library are the      *)
(* environment: each call into them either succeeds or fails.              *)
(***************************************************************************)
EXTENDS Integers, Sequences, FiniteSets, TLC

\* Option<T>: None is the empty sequence, Some(v) the one-element sequence
NoneOpt == <<>>
Some(v) == <<v>>
IsSome(o) == o # <<>>
Unwrap(o) == o[1]

(***************************************************************************)
(* Bounds of the model.                                                    *)
(***************************************************************************)
MaxLines == 3

(***************************************************************************)
(* Text helpers.                                                           *)
(***************************************************************************)
Digits == <<"0", "1", "2", "3", "4", "5", "6", "7", "8", "9">>

DigitValues == [c \in {Digits[k] : k \in 1..10} |-> (CHOOSE k \in 1..10 : Digits[k] = c) - 1]

IsDigit(c) == c \in DOMAIN DigitValues

DigitValue(c) == DigitValues[c]

\* char::is_ascii_whitespace: space, tab, line feed, form feed, carriage return
IsAsciiWhitespace(c) == c \in {" ", "\t", "\n", "\f", "\r"}

RECURSIVE SplitFrom(_, _, _, _)
SplitFrom(line, k, cur, acc) ==
    IF k > Len(line)
    THEN IF cur = <<>> THEN acc ELSE Append(acc, cur)
    ELSE IF IsAsciiWhitespace(line[k])
         THEN SplitFrom(line, k + 1, <<>>, IF cur = <<>> THEN acc ELSE Append(acc, cur))
         ELSE SplitFrom(line, k + 1, Append(cur, line[k]), acc)

\* str::split_ascii_whitespace: the non-empty maximal runs of non-whitespace
split_ascii_whitespace(line) == SplitFrom(line, 1, <<>>, <<>>)

U16Max == 65535

RECURSIVE ParseDigits(_, _, _, _)
ParseDigits(tok, k, acc, max) ==
    IF k > Len(tok) THEN acc
    ELSE IF ~IsDigit(tok[k]) THEN -1
    ELSE IF acc > (max - DigitValue(tok[k])) \div 10 THEN -1
    ELSE ParseDigits(tok, k + 1, acc * 10 + DigitValue(tok[k]), max)

\* <unsigned>::from_str: an optional "+" and then one or more decimal digits
\* whose value fits the type; -1 stands for Err.
ParseUnsigned(tok, max) ==
    LET body == IF Len(tok) > 0 /\ tok[1] = "+" THEN Tail(tok) ELSE tok
    IN  IF body = <<>> THEN -1 ELSE ParseDigits(body, 1, 0, max)

ParseU16(tok) == ParseUnsigned(tok, U16Max)

\* The tokens of the model have fewer than ten digits, so the value always
\* fits u32; the limit used is the largest integer TLC represents.
ParseU32(tok) == ParseUnsigned(tok, 2147483647)

(***************************************************************************)
(* std::path (Unix): a path is its text.                                   *)
(***************************************************************************)
\* Trailing separators and trailing "." components are not components
RECURSIVE StripTrailing(_)
StripTrailing(p) ==
    IF Len(p) > 1 /\ p[Len(p)] = "/"
    THEN StripTrailing(SubSeq(p, 1, Len(p) - 1))
    ELSE IF Len(p) >= 2 /\ p[Len(p)] = "." /\ p[Len(p) - 1] = "/"
         THEN StripTrailing(SubSeq(p, 1, Len(p) - 1))
         ELSE p

\* Position of the first character of the last component of a stripped path
RECURSIVE LastStart(_, _)
LastStart(p, k) ==
    IF k = 0 THEN 1
    ELSE IF p[k] = "/" THEN k + 1
    ELSE LastStart(p, k - 1)

LastComponent(p) ==
    LET q == StripTrailing(p)
    IN  SubSeq(q, LastStart(q, Len(q)), Len(q))

\* Path::file_name: the last component when it is a normal one; None for the
\* empty path, the root, "." and a path that ends in ".."
file_name(p) ==
    LET name == LastComponent(p)
    IN  IF name \in {<<>>, <<".">>, <<".", ".">>} THEN NoneOpt ELSE Some(name)

\* Path::parent, used by PathBuf::pop
parent(p) ==
    LET q == StripTrailing(p)
    IN  StripTrailing(SubSeq(q, 1, LastStart(q, Len(q)) - 1))

\* PathBuf::push, Path::join
join(base, p) ==
    IF Len(p) > 0 /\ p[1] = "/" THEN p
    ELSE IF base = <<>> \/ base[Len(base)] = "/" THEN base \o p
    ELSE base \o <<"/">> \o p

\* Path::with_file_name: pop the file name when there is one, then push
with_file_name(p, name) ==
    join(IF IsSome(file_name(p)) THEN parent(p) ELSE p, name)

(***************************************************************************)
(* f32 arithmetic of the frame rate: (ms_delay as f32 / 16.667).round()    *)
(***************************************************************************)
\* The f32 nearest to 16.667 is F32DivisorNum / 2^F32DivisorShift
F32DivisorNum == 2184577
F32DivisorShift == 17
F32MantissaBits == 24

RECURSIVE Pow2(_)
Pow2(n) == IF n = 0 THEN 1 ELSE 2 * Pow2(n - 1)

\* Long division n / den, one binary digit at a time, until the quotient has
\* F32MantissaBits + 1 significant bits: <<quotient, remainder, digits>>
RECURSIVE LongDiv(_, _, _, _)
LongDiv(q, r, j, den) ==
    IF q >= Pow2(F32MantissaBits) THEN <<q, r, j>>
    ELSE IF 2 * r >= den
         THEN LongDiv(2 * q + 1, 2 * r - den, j + 1, den)
         ELSE LongDiv(2 * q, 2 * r, j + 1, den)

\* The f32 quotient n / 16.667f32 (round to nearest, ties to even) as
\* <<mantissa, shift>>, standing for mantissa / 2^shift.  n is below 2^24,
\* so that `n as f32` is n itself.
F32Div(n) ==
    IF n = 0 THEN <<0, 0>>
    ELSE LET d == LongDiv(n \div F32DivisorNum, n % F32DivisorNum, 0, F32DivisorNum)
             m == d[1] \div 2
             guard == d[1] % 2
             up == guard = 1 /\ (d[2] # 0 \/ m % 2 = 1)
         IN  <<IF up THEN m + 1 ELSE m, d[3] - 1 - F32DivisorShift>>

\* f32::round: to the nearest integer, halves away from zero
F32Round(x) ==
    IF x[2] <= 0 THEN x[1] * Pow2(0 - x[2])
    ELSE LET unit == Pow2(x[2])
         IN  (x[1] \div unit) + (IF 2 * (x[1] % unit) >= unit THEN 1 ELSE 0)

\* main.rs line 142
FrameRate(ms_delay) == F32Round(F32Div(ms_delay))

(***************************************************************************)
(* The layout parser.                                                      *)
(***************************************************************************)
Ok(v) == [ok |-> TRUE, value |-> v]
Err(e) == [ok |-> FALSE, error |-> e]

\* main.rs 94 and 104: the accepted numbers of columns
ColumnsOk(n) == n \in {4, 5}

\* main.rs 91-106
parse_config_line(line) ==
    LET cols == split_ascii_whitespace(line)
    IN  IF ColumnsOk(Len(cols))
        THEN LET size == ParseU16(cols[1])
                 x_hot == ParseU16(cols[2])
                 y_hot == ParseU16(cols[3])
                 ms_delay == ParseU32(IF Len(cols) >= 5 THEN cols[5] ELSE <<"0">>)
             IN  IF size < 0 THEN Err("<size> must be an integer")
                 ELSE IF x_hot < 0 THEN Err("<x-hot> must be an integer")
                 ELSE IF y_hot < 0 THEN Err("<y-hot> must be an integer")
                 ELSE IF ms_delay < 0 THEN Err("<ms-delay> must be an integer")
                 ELSE Ok([size |-> size, x_hot |-> x_hot, y_hot |-> y_hot,
                          path |-> cols[4], ms_delay |-> ms_delay])
        ELSE Err("Unrecognizable format")

\* A faulty LineIndex: the lines counted from 1
LineIndexOneBased(k) == k

\* Iterator::enumerate counts from 0; sequences here are indexed from 1
LineIndex(k) == k - 1

\* A faulty VecPush: the frame goes to the front of the list
VecPushFront(vec, frame) == <<frame>> \o vec

\* Vec::push
VecPush(vec, frame) == Append(vec, frame)

\* main.rs 84-85: result.entry(frame.size).or_insert_with(Vec::new).push(frame)
EntryPush(result, frame) ==
    IF frame.size \in DOMAIN result
    THEN [result EXCEPT ![frame.size] = VecPush(@, frame)]
    ELSE (frame.size :> VecPush(<<>>, frame)) @@ result

\* main.rs 77-88: the loop over the lines, from line k on
RECURSIVE ParseLines(_, _, _)
ParseLines(lines, k, result) ==
    IF k > Len(lines) THEN Ok(result)
    ELSE LET frame == parse_config_line(lines[k])
         IN  IF ~frame.ok
             THEN Err([kind |-> "ConfigSyntax", cause |-> frame.error,
                       line |-> LineIndex(k)])
             ELSE ParseLines(lines, k + 1, EntryPush(result, frame.value))

\* main.rs 70-89, once the file has been read; lines is data.lines()
parse_config(lines) == ParseLines(lines, 1, <<>>)

(***************************************************************************)
(* Inputs: the command line and the config file's lines.                   *)
(***************************************************************************)
LineTexts == {
    <<"3", "2", " ", "8", " ", "8", " ", "a", " ", "3", "0">>,
    <<"3", "2", " ", "0", " ", "0", " ", "c", " ", "1", "6", "6", "9", "2">>,
    <<"3", "2", " ", "1", " ", "2", " ", "d", " ", "5">>,
    <<"3", "2", " ", "8", " ", "8", " ", "e">>,
    <<"4", "8", "\t", "0", " ", "0", " ", " ", "a", " ", "0", " ">>,
    <<>>,
    <<"4", "8", " ", "8", " ", "8", " ", "a", " ", "3", "0", " ", "x">>,
    <<"x", " ", "8", " ", "8", " ", "a", " ", "3", "0">> }

Configs == UNION {[1..n -> LineTexts] : n \in 0..MaxLines}

OutputPaths == {
    <<"/", "t", "m", "p", "/">>,
    <<"d", "/", "o">>,
    <<"/">>,
    <<"d", "/", ".", ".">> }

Prefixes == {NoneOpt, Some(<<"p">>)}

Sizes == {32, 48}

\* What a call into the file system or the codec can come back with
CreateCurOutcomes == {"ok", "open_err", "read_err", "encode_err"}

VARIABLES
    opts,          \* Opts: prefix, output, size
    data,          \* the lines of the config file
    pc,            \* the position in main
    configOpened,  \* File::open of the config file succeeded
    config,        \* the parsed HashMap<u16, Vec<FrameConfig>>
    frames,        \* the Vec selected by config.get(&opts.size)
    called,        \* which of generate_cur / generate_ani main called
    header,        \* Option<AniHeader>
    icons,         \* the IconDirs built so far
    ani,           \* Option<Ani>
    createCurCalls,\* the calls of create_cur so far: image path and outcome
    dest,          \* Option<PathBuf>: the destination path, once computed
    destFile,      \* the file at dest: absent, empty, partial, complete
    result         \* what main returned

vars == <<opts, data, pc, configOpened, config, frames, called, header, icons,
          ani, createCurCalls, dest, destFile, result>>

Running == [kind |-> "Running"]
Success == [kind |-> "Ok"]
Failure(kind, cause) == [kind |-> kind, cause |-> cause]

Init ==
    /\ opts \in [prefix : Prefixes, output : OutputPaths, size : Sizes]
    /\ data \in Configs
    /\ pc = "main"
    /\ configOpened = FALSE
    /\ config = <<>>
    /\ frames = <<>>
    /\ called = "none"
    /\ header = NoneOpt
    /\ icons = <<>>
    /\ ani = NoneOpt
    /\ createCurCalls = <<>>
    /\ dest = NoneOpt
    /\ destFile = "absent"
    /\ result = Running

\* main returns r
Return(r) ==
    /\ pc' = "done"
    /\ result' = r

\* A faulty OutputInvalid: only the empty path is refused
OutputEmpty(output) == output = <<>>

\* main.rs 55: opts.output.file_name().is_none()
OutputInvalid(output) == ~IsSome(file_name(output))

\* main.rs 53-57
Main ==
    /\ pc = "main"
    /\ IF OutputInvalid(opts.output)
       THEN Return(Failure("InvalidOutputPath", "invalid output path"))
       ELSE pc' = "parse_config" /\ UNCHANGED result
    /\ UNCHANGED <<opts, data, configOpened, config, frames, called, header,
                   icons, ani, createCurCalls, dest, destFile>>

\* main.rs 72-75: the config file cannot be opened, or cannot be read
ParseConfigIoError ==
    /\ pc = "parse_config"
    /\ \E cause \in {"cannot open config file", "cannot read config file"} :
          /\ configOpened' = (cause = "cannot read config file")
          /\ Return(Failure("ConfigIo", cause))
    /\ UNCHANGED <<opts, data, config, frames, called, header, icons, ani,
                   createCurCalls, dest, destFile>>

\* main.rs 59, 70-89
ParseConfig ==
    /\ pc = "parse_config"
    /\ configOpened' = TRUE
    /\ LET parsed == parse_config(data)
       IN  IF parsed.ok
           THEN config' = parsed.value /\ pc' = "match" /\ UNCHANGED result
           ELSE Return(parsed.error) /\ UNCHANGED config
    /\ UNCHANGED <<opts, data, frames, called, header, icons, ani, createCurCalls,
                   dest, destFile>>

\* A faulty IsSingle: a lone frame with a delay is taken for an animation
IsSingleWithoutDelay(xs) == Len(xs) = 1 /\ xs[1].ms_delay = 0

\* main.rs 64: the slice pattern [x]
IsSingle(xs) == Len(xs) = 1

\* main.rs 60-67
Match ==
    /\ pc = "match"
    /\ IF opts.size \notin DOMAIN config
       THEN /\ Return(Failure("SizeNotFound", "the size does not exist in the config"))
            /\ UNCHANGED <<frames, called>>
       ELSE /\ frames' = config[opts.size]
            /\ IF Len(frames') = 0
               THEN Return(Failure("Panic", "unreachable")) /\ UNCHANGED called
               ELSE IF IsSingle(frames')
               THEN pc' = "generate_cur" /\ called' = "generate_cur" /\ UNCHANGED result
               ELSE pc' = "generate_ani" /\ called' = "generate_ani" /\ UNCHANGED result
    /\ UNCHANGED <<opts, data, configOpened, config, header, icons, ani,
                   createCurCalls, dest, destFile>>

\* main.rs 165-168: the image path, under the prefix when there is one
ResolvePath(frame, o) ==
    IF IsSome(o.prefix) THEN join(Unwrap(o.prefix), frame.path) ELSE frame.path

\* main.rs 179-185: an IconDir with one entry, the image with its hotspot
IconDirOf(frame, o) ==
    [entries |-> <<[png |-> ResolvePath(frame, o),
                    hotspot |-> <<frame.x_hot, frame.y_hot>>]>>]

\* A faulty CreateCurFails: an encoder error goes unnoticed
CreateCurFailsOnIoOnly(outcome) == outcome \in {"open_err", "read_err"}

\* The `?` of main.rs 173, 178 and 181: which outcomes make create_cur return Err
CreateCurFails(outcome) == outcome # "ok"

\* main.rs 164-186
create_cur(frame, o, outcome) ==
    IF CreateCurFails(outcome)
    THEN Err(CASE outcome = "open_err" -> Failure("ImageIo", "cannot open PNG file")
               [] outcome = "read_err" -> Failure("ImageIo", "cannot read PNG file")
               [] OTHER -> Failure("Encoding", "cannot encode PNG to CUR/ANI"))
    ELSE Ok(IconDirOf(frame, o))

CallOf(frame, o, outcome) == [path |-> ResolvePath(frame, o), outcome |-> outcome]

\* main.rs 109-110, 133-134: file_name().unwrap() and the extension
FileNameWithExt(output, ext) == Unwrap(file_name(output)) \o ext

CurExt == <<".", "c", "u", "r">>
AniExt == <<".", "a", "n", "i">>

\* main.rs 108-112
GenerateCur ==
    /\ pc = "generate_cur"
    /\ IF ~IsSome(file_name(opts.output))
       THEN /\ Return(Failure("Panic", "unwrap on None"))
            /\ UNCHANGED <<icons, createCurCalls>>
       ELSE \E outcome \in CreateCurOutcomes :
              LET cur == create_cur(frames[1], opts, outcome)
              IN  /\ createCurCalls' = Append(createCurCalls, CallOf(frames[1], opts, outcome))
                  /\ IF cur.ok
                     THEN icons' = <<cur.value>> /\ pc' = "cur_create" /\ UNCHANGED result
                     ELSE Return(cur.error) /\ UNCHANGED icons
    /\ UNCHANGED <<opts, data, configOpened, config, frames, called, header,
                   ani, dest, destFile>>

\* main.rs 114-118 and 150-154: File::create makes the file, or empties it
FileCreate(ext, next) ==
    /\ dest' = Some(with_file_name(opts.output, FileNameWithExt(opts.output, ext)))
    /\ \E created \in BOOLEAN :
          IF created
          THEN destFile' = "empty" /\ pc' = next /\ UNCHANGED result
          ELSE Return(Failure("OutputIo", "cannot create cursor file")) /\ UNCHANGED destFile
    /\ UNCHANGED <<opts, data, configOpened, config, frames, called, header,
                   icons, ani, createCurCalls>>

\* main.rs 120-123 and 156-161: the write either completes, or fails after
\* none or some of the bytes went out
FileWrite ==
    /\ \E written \in BOOLEAN :
          IF written
          THEN destFile' = "complete" /\ Return(Success)
          ELSE /\ destFile' \in {"empty", "partial"}
               /\ Return(Failure("OutputIo", "cannot write cursor file"))
    /\ UNCHANGED <<opts, data, configOpened, config, frames, called, header,
                   icons, ani, createCurCalls, dest>>

\* main.rs 114-118
CurFileCreate == pc = "cur_create" /\ FileCreate(CurExt, "cur_write")

\* main.rs 120-123
CurWrite == pc = "cur_write" /\ FileWrite

\* A faulty AnyZeroDelay: only the first frame's delay is looked at
FirstZeroDelay(xs) == xs[1].ms_delay = 0

\* main.rs 127
AnyZeroDelay(xs) == \E k \in 1..Len(xs) : xs[k].ms_delay = 0

\* A faulty AniHeaderOf: a single step, whatever the number of frames
AniHeaderOneStep(xs, o) ==
    [num_frames |-> Len(xs), num_steps |-> 1,
     width |-> o.size, height |-> o.size,
     frame_rate |-> FrameRate(xs[1].ms_delay)]

\* main.rs 137-143
AniHeaderOf(xs, o) ==
    [num_frames |-> Len(xs), num_steps |-> Len(xs),
     width |-> o.size, height |-> o.size,
     frame_rate |-> FrameRate(xs[1].ms_delay)]

\* main.rs 126-143
GenerateAni ==
    /\ pc = "generate_ani"
    /\ IF AnyZeroDelay(frames)
       THEN /\ Return(Failure("MissingTiming",
                              "the <ms-delay> must be specified for animated cursor"))
            /\ UNCHANGED header
       ELSE IF ~IsSome(file_name(opts.output))
       THEN Return(Failure("Panic", "unwrap on None")) /\ UNCHANGED header
       ELSE /\ header' = Some(AniHeaderOf(frames, opts))
            /\ pc' = "ani_frames"
            /\ UNCHANGED result
    /\ UNCHANGED <<opts, data, configOpened, config, frames, called, icons, ani,
                   createCurCalls, dest, destFile>>

\* main.rs 144-148: the next frame of frames.iter().map(create_cur).collect()
AniFrame ==
    /\ pc = "ani_frames"
    /\ \E outcome \in CreateCurOutcomes :
          LET frame == frames[Len(icons) + 1]
              cur == create_cur(frame, opts, outcome)
          IN  /\ createCurCalls' = Append(createCurCalls, CallOf(frame, opts, outcome))
              /\ IF ~cur.ok
                 THEN Return(cur.error) /\ UNCHANGED <<icons, ani>>
                 ELSE /\ icons' = Append(icons, cur.value)
                      /\ UNCHANGED result
                      /\ IF Len(icons') = Len(frames)
                         THEN /\ ani' = Some([header |-> Unwrap(header), frames |-> icons'])
                              /\ pc' = "ani_create"
                         ELSE UNCHANGED <<ani, pc>>
    /\ UNCHANGED <<opts, data, configOpened, config, frames, called, header,
                   dest, destFile>>

\* main.rs 150-154
AniFileCreate == pc = "ani_create" /\ FileCreate(AniExt, "ani_encode")

\* main.rs 156-161
AniEncode == pc = "ani_encode" /\ FileWrite

Next ==
    \/ Main
    \/ ParseConfigIoError
    \/ ParseConfig
    \/ Match
    \/ GenerateCur
    \/ CurFileCreate
    \/ CurWrite
    \/ GenerateAni
    \/ AniFrame
    \/ AniFileCreate
    \/ AniEncode

Spec == Init /\ [][Next]_vars

(***************************************************************************)
(* What the claims speak of, read off the inputs.                          *)
(***************************************************************************)
FieldCount(line) == Len(split_ascii_whitespace(line))

\* The lines whose number of fields is neither 4 nor 5
BadCountLines == {k \in 1..Len(data) : FieldCount(data[k]) \notin {4, 5}}

\* The lines that do not parse: a wrong field count or a non-integer field
InvalidLines == {k \in 1..Len(data) : ~parse_config_line(data[k]).ok}

Minimum(S) == CHOOSE k \in S : \A j \in S : k <= j

DeclaresSize(k, s) ==
    LET line == parse_config_line(data[k])
    IN  line.ok /\ line.value.size = s

\* The frames of the lines from line k on that declare size s, in file order
RECURSIVE GroupFrom(_, _)
GroupFrom(k, s) ==
    IF k > Len(data) THEN <<>>
    ELSE LET line == parse_config_line(data[k])
         IN  IF line.ok /\ line.value.size = s
             THEN <<line.value>> \o GroupFrom(k + 1, s)
             ELSE GroupFrom(k + 1, s)

GroupOfSize(s) == GroupFrom(1, s)

RequestedGroup == GroupOfSize(opts.size)

\* parse_config ran to its end and returned Ok
ParsedOk == configOpened /\ result.kind \notin {"ConfigIo", "ConfigSyntax"}

\* parse_config got as far as parsing the lines
ParseRan == configOpened /\ result.kind # "ConfigIo"

\* main has made its choice between the two build paths
Selected == ParsedOk /\ pc # "match"

EndsWith(p, ext) ==
    Len(p) >= Len(ext) /\ SubSeq(p, Len(p) - Len(ext) + 1, Len(p)) = ext

\* round(d / 16.667) over the reals, halves away from zero, for d >= 0
RoundedTicks(d) == (2000 * d + 16667) \div 33334

(***************************************************************************)
(* C1: when the requested size's group has two or more frames and one of   *)
(* them has ms_delay 0, the build fails with the missing-timing error, no  *)
(* source image is opened and the destination file is never created.       *)
(***************************************************************************)
C1_MissingTimingFailsBeforeAnyImage ==
    (/\ ParsedOk
     /\ LET group == RequestedGroup
        IN  /\ Len(group) >= 2
            /\ \E k \in 1..Len(group) : group[k].ms_delay = 0)
    => /\ createCurCalls = <<>>
       /\ dest = NoneOpt
       /\ destFile = "absent"
       /\ pc \in {"match", "generate_ani", "done"}
       /\ pc = "done" => result.kind = "MissingTiming"

C1_Witness ==
    /\ pc = "done"
    /\ result.kind = "MissingTiming"
    /\ Len(frames) >= 2
    /\ frames[1].ms_delay # 0
    /\ createCurCalls = <<>>

(***************************************************************************)
(* C2: in both paths a failure to open, decode or encode any one frame     *)
(* fails the build and the destination file is never created; the file is  *)
(* created only after every frame of the requested size was converted.     *)
(***************************************************************************)
C2_DestCreatedOnlyAfterAllFrames ==
    /\ (\E k \in 1..Len(createCurCalls) : createCurCalls[k].outcome # "ok")
       => /\ pc = "done"
          /\ result.kind \in {"ImageIo", "Encoding"}
          /\ dest = NoneOpt
          /\ destFile = "absent"
    /\ (destFile # "absent" \/ pc \in {"cur_create", "ani_create"})
       => /\ LET group == RequestedGroup
             IN  Len(createCurCalls) = Len(group) /\ Len(icons) = Len(group)
          /\ \A k \in 1..Len(createCurCalls) : createCurCalls[k].outcome = "ok"

C2_Witness ==
    /\ pc = "done"
    /\ called = "generate_ani"
    /\ Len(createCurCalls) >= 2
    /\ createCurCalls[Len(createCurCalls)].outcome = "encode_err"
    /\ destFile = "absent"

(***************************************************************************)
(* C3: after a build that ends in failure, whatever the error, no file     *)
(* made by that build is left at the destination path.                     *)
(***************************************************************************)
C3_NoFileLeftAfterFailure ==
    (pc = "done" /\ result.kind # "Ok") => destFile = "absent"

(***************************************************************************)
(* C4, as stated: when some line has a number of fields other than 4 or 5, *)
(* parsing fails with a syntax error whose index is that of the first such *)
(* line, whether or not the other lines are valid.                         *)
(***************************************************************************)
C4_ReportsFirstBadCountLine ==
    (ParseRan /\ BadCountLines # {})
    => /\ result.kind = "ConfigSyntax"
       /\ result.line = Minimum(BadCountLines) - 1

(***************************************************************************)
(* C4, amended: when some line has a number of fields other than 4 or 5,   *)
(* parsing fails with a syntax error and produces no mapping; the index    *)
(* reported is the 0-based index of the first line that does not parse     *)
(* (wrong field count or non-integer field), which is the first line with  *)
(* a wrong field count when every line before it is valid.                 *)
(***************************************************************************)
C4_ReportsFirstInvalidLine ==
    (ParseRan /\ BadCountLines # {})
    => /\ pc = "done"
       /\ result.kind = "ConfigSyntax"
       /\ config = <<>>
       /\ called = "none"
       /\ LET firstInvalid == Minimum(InvalidLines)
              firstBadCount == Minimum(BadCountLines)
          IN  /\ result.line = firstInvalid - 1
              /\ firstInvalid = firstBadCount
                 => /\ result.line = firstBadCount - 1
                    /\ result.cause = "Unrecognizable format"

C4_Witness ==
    /\ pc = "done"
    /\ result.kind = "ConfigSyntax"
    /\ result.line = 2
    /\ data[3] = <<>>
    /\ opts.size = 48

(***************************************************************************)
(* C5: the frame list of the requested size is the subsequence of lines    *)
(* declaring that size, in file order, also with other sizes in between;   *)
(* frames are processed in that order and the animated container holds one *)
(* entry per such line in that order.                                      *)
(***************************************************************************)
C5_FramesInFileOrder ==
    ParsedOk
    => LET group == RequestedGroup
       IN  /\ \A s \in Sizes :
                 GroupOfSize(s) = IF s \in DOMAIN config THEN config[s] ELSE <<>>
           /\ called # "none" => frames = group
           /\ Len(createCurCalls) <= Len(group)
           /\ \A k \in 1..Len(createCurCalls) :
                 createCurCalls[k].path = ResolvePath(group[k], opts)
           /\ IsSome(ani)
              => /\ Len(Unwrap(ani).frames) = Len(group)
                 /\ \A k \in 1..Len(group) :
                       Unwrap(ani).frames[k].entries =
                           <<[png |-> ResolvePath(group[k], opts),
                              hotspot |-> <<group[k].x_hot, group[k].y_hot>>]>>

C5_Witness ==
    /\ pc = "done"
    /\ result.kind = "Ok"
    /\ IsSome(ani)
    /\ Len(data) = 3
    /\ DeclaresSize(1, opts.size)
    /\ ~DeclaresSize(2, opts.size)
    /\ DeclaresSize(3, opts.size)
    /\ frames[1].path # frames[2].path

(***************************************************************************)
(* C6: once the config is parsed, the number of lines declaring the        *)
(* requested size alone decides the path: none fails with size-not-found,  *)
(* no image opened and no file written; one is the static path to          *)
(* <stem>.cur whatever its ms_delay; two or more is the animated path to   *)
(* <stem>.ani.  The empty group is never reached.                          *)
(***************************************************************************)
DestIs(ext) ==
    IsSome(dest)
    => /\ file_name(Unwrap(dest)) = Some(Unwrap(file_name(opts.output)) \o ext)
       /\ parent(Unwrap(dest)) = parent(opts.output)
       /\ opts.output[Len(opts.output)] # "/" => Unwrap(dest) = opts.output \o ext

C6_PathDecidedByGroupLength ==
    Selected
    => LET n == Len(RequestedGroup)
       IN  /\ result.kind # "Panic"
           /\ destFile # "absent" => IsSome(dest)
           /\ n = 0
              => /\ pc = "done"
                 /\ result.kind = "SizeNotFound"
                 /\ called = "none"
                 /\ createCurCalls = <<>>
                 /\ dest = NoneOpt
                 /\ destFile = "absent"
           /\ n = 1 => called = "generate_cur" /\ DestIs(CurExt)
           /\ n >= 2 => called = "generate_ani" /\ DestIs(AniExt)

C6_Witness ==
    /\ pc = "done"
    /\ result.kind = "Ok"
    /\ called = "generate_cur"
    /\ frames[1].ms_delay # 0
    /\ EndsWith(Unwrap(dest), CurExt)

(***************************************************************************)
(* C7: in an animated build the header clock rate equals                   *)
(* round(d / 16.667), halves away from zero, d being the ms_delay of the   *)
(* first frame of the requested size.                                      *)
(***************************************************************************)
C7_ClockRateIsRoundedQuotient ==
    IsSome(header)
    => Unwrap(header).frame_rate = RoundedTicks(RequestedGroup[1].ms_delay)

(***************************************************************************)
(* C8: every animated container the build assembles has frame_count =      *)
(* step_count = number of entries = number of lines declaring the          *)
(* requested size, and width = height = the requested size.                *)
(***************************************************************************)
C8_HeaderCountsAndDimensions ==
    /\ IsSome(header)
       => /\ LET n == Len(RequestedGroup)
             IN  Unwrap(header).num_frames = n /\ Unwrap(header).num_steps = n
          /\ Unwrap(header).width = opts.size
          /\ Unwrap(header).height = opts.size
    /\ IsSome(ani)
       => /\ Unwrap(ani).header = Unwrap(header)
          /\ Unwrap(ani).header.num_frames = Len(Unwrap(ani).frames)
          /\ Unwrap(ani).header.num_steps = Len(Unwrap(ani).frames)
          /\ \A k \in 1..Len(Unwrap(ani).frames) : Len(Unwrap(ani).frames[k].entries) = 1

C8_Witness ==
    /\ IsSome(ani)
    /\ Len(Unwrap(ani).frames) = 3
    /\ destFile = "complete"

(***************************************************************************)
(* C9, as stated: an output path with no file-name component, `/tmp/`      *)
(* being one, fails the build with the invalid-output-path error before    *)
(* the config file is opened, and nothing is written.                      *)
(***************************************************************************)
TmpSlash == <<"/", "t", "m", "p", "/">>

C9_TrailingSlashIsRefused ==
    ((opts.output = TmpSlash \/ ~IsSome(file_name(opts.output))) /\ pc # "main")
    => /\ pc = "done"
       /\ result.kind = "InvalidOutputPath"
       /\ ~configOpened
       /\ destFile = "absent"

(***************************************************************************)
(* C9, amended: an output path with no file-name component (the empty      *)
(* path, the root, a path ending in `..`) fails the build with the         *)
(* invalid-output-path error before the config file is opened or parsed,   *)
(* and nothing is written; `/tmp/` is not such a path, its file name is    *)
(* `tmp` and the build goes on towards `/tmp.cur` or `/tmp.ani`.  Whenever *)
(* the static or animated path is reached the output path has a file-name  *)
(* component, so deriving the destination name never fails.                *)
(***************************************************************************)
C9_NoFileNameIsRefusedFirst ==
    /\ (~IsSome(file_name(opts.output)) /\ pc # "main")
       => /\ pc = "done"
          /\ result.kind = "InvalidOutputPath"
          /\ ~configOpened
          /\ config = <<>>
          /\ createCurCalls = <<>>
          /\ dest = NoneOpt
          /\ destFile = "absent"
    /\ called # "none"
       => /\ IsSome(file_name(opts.output))
          /\ result.kind # "Panic"
    /\ (opts.output = TmpSlash /\ pc # "main")
       => /\ result.kind # "InvalidOutputPath"
          /\ IsSome(dest)
             => Unwrap(dest) \in {<<"/", "t", "m", "p">> \o CurExt,
                                  <<"/", "t", "m", "p">> \o AniExt}

C9_Witness ==
    /\ pc = "done"
    /\ result.kind = "InvalidOutputPath"
    /\ opts.output = <<"d", "/", ".", ".">>
    /\ Len(data) = 2

(***************************************************************************)
(* C10: every animated container that passed the timing validation and was *)
(* written has a clock rate of at least 1 tick.                            *)
(***************************************************************************)
C10_WrittenClockRateAtLeastOne ==
    (called = "generate_ani" /\ destFile = "complete")
    => Unwrap(ani).header.frame_rate >= 1

====
